---- MODULE Spec2Model ----
(***************************************************************************)
(* A model of redis-d1: the KV facade (src/unnamed/part_004) that maps     *)
(* Redis-like commands to SQL statements on one table (key, value JSON,    *)
(* expire_at INTEGER) of an SQLite database (D1).                           *)
(*                                                                         *)
(* Text is modelled as a sequence of atoms.  An atom is a punctuation      *)
(* character ([ ] { } , : " \), one of the words true false null, a        *)
(* decimal numeral, or a run of ordinary characters of a string.  JSON     *)
(* text is built and parsed atom by atom, so that encode/decode, json(),   *)
(* substr() and || are computed on text as the code computes them.         *)
(***************************************************************************)
EXTENDS Integers, Sequences, FiniteSets, TLC

(***************************************************************************)
(* Bounds of the model.                                                    *)
(***************************************************************************)
\* the clock runs from 1 to MaxNow (epoch seconds, scaled down)
MaxNow == 2
\* relative expiries are drawn from -MaxSec..MaxSec
MaxSec == 1
\* a list grows to at most MaxLen elements
MaxLen == 3
\* counters stay within -MaxCount..MaxCount
MaxCount == 2
NCallers == 3

(***************************************************************************)
(* JavaScript values.  One record shape for all of them:                   *)
(*   t  : "undefined" "number" "string" "true" "false" "null" "array"      *)
(*        "object", or "error" for a call that throws                      *)
(*   n  : the number            s : the characters of the string           *)
(*   a  : the elements of the array, or the members' values of the object  *)
(*   ks : the members' names of the object                                 *)
(***************************************************************************)
JV(t, n, s, ks, a) == [t |-> t, n |-> n, s |-> s, ks |-> ks, a |-> a]
Undefined == JV("undefined", 0, <<>>, <<>>, <<>>)
Thrown == JV("error", 0, <<>>, <<>>, <<>>)
Null == JV("null", 0, <<>>, <<>>, <<>>)
True == JV("true", 0, <<>>, <<>>, <<>>)
False == JV("false", 0, <<>>, <<>>, <<>>)
Num(n) == JV("number", n, <<>>, <<>>, <<>>)
Str(s) == JV("string", 0, s, <<>>, <<>>)
Arr(a) == JV("array", 0, <<>>, <<>>, a)
Obj(ks, a) == JV("object", 0, <<>>, ks, a)
Bool(b) == IF b THEN True ELSE False

\* the integers that have a numeral in the model
NumRange == -(MaxCount + 1)..(MaxCount + MaxNow + MaxSec + 1)
Numeral(n) == ToString(n)
Numerals == {Numeral(n) : n \in NumRange}
IsNumeral(atom) == atom \in Numerals
NumeralValue(atom) == CHOOSE n \in NumRange : Numeral(n) = atom

RECURSIVE Join(_, _)
\* Array.prototype.join on texts
Join(texts, sep) ==
  IF texts = <<>> THEN <<>>
  ELSE IF Len(texts) = 1 THEN texts[1]
  ELSE texts[1] \o sep \o Join(Tail(texts), sep)

RECURSIVE Quote(_)
\* the body of a JSON string literal: " and \ are escaped
Quote(s) ==
  IF s = <<>> THEN <<>>
  ELSE (IF Head(s) \in {"\"", "\\"} THEN <<"\\", Head(s)>> ELSE <<Head(s)>>)
         \o Quote(Tail(s))

RECURSIVE Stringify(_)
\* JSON.stringify(value) for a value other than undefined (minified, no spaces)
Stringify(v) ==
  CASE v.t = "number" -> <<Numeral(v.n)>>
    [] v.t = "string" -> <<"\"">> \o Quote(v.s) \o <<"\"">>
    [] v.t = "array" ->
         <<"[">> \o Join([i \in 1..Len(v.a) |->
                            IF v.a[i].t = "undefined" THEN <<"null">>
                            ELSE Stringify(v.a[i])], <<",">>) \o <<"]">>
    [] v.t = "object" ->
         <<"{">> \o Join([i \in 1..Len(v.a) |->
                            <<"\"", v.ks[i], "\"", ":">> \o Stringify(v.a[i])],
                         <<",">>) \o <<"}">>
    [] OTHER -> <<v.t>>

(***************************************************************************)
(* Parsing JSON text.  A parse result is [ok, v, rest].  With json5 the    *)
(* parser accepts one trailing comma in an array or object, as SQLite's    *)
(* json() does from 3.42.0 on; JSON.parse never does.                      *)
(***************************************************************************)
PFail == [ok |-> FALSE, v |-> Undefined, rest |-> <<>>]
POk(v, rest) == [ok |-> TRUE, v |-> v, rest |-> rest]

RECURSIVE ParseChars(_, _)
\* the characters of a string literal, after its opening quote
ParseChars(x, acc) ==
  IF x = <<>> THEN [ok |-> FALSE, s |-> acc, rest |-> <<>>]
  ELSE IF Head(x) = "\"" THEN [ok |-> TRUE, s |-> acc, rest |-> Tail(x)]
  ELSE IF Head(x) = "\\"
    THEN IF Len(x) >= 2 /\ x[2] \in {"\"", "\\"}
           THEN ParseChars(Tail(Tail(x)), Append(acc, x[2]))
           ELSE [ok |-> FALSE, s |-> acc, rest |-> <<>>]
  ELSE ParseChars(Tail(x), Append(acc, Head(x)))

RECURSIVE ParseValue(_, _)
RECURSIVE ParseElements(_, _, _)
RECURSIVE ParseMembers(_, _, _, _)

ParseValue(x, json5) ==
  IF x = <<>> THEN PFail
  ELSE LET h == Head(x) IN
    CASE h = "[" -> ParseElements(Tail(x), <<>>, json5)
      [] h = "{" -> ParseMembers(Tail(x), <<>>, <<>>, json5)
      [] h = "\"" -> LET r == ParseChars(Tail(x), <<>>)
                     IN IF r.ok THEN POk(Str(r.s), r.rest) ELSE PFail
      [] h = "true" -> POk(True, Tail(x))
      [] h = "false" -> POk(False, Tail(x))
      [] h = "null" -> POk(Null, Tail(x))
      [] OTHER -> IF IsNumeral(h) THEN POk(Num(NumeralValue(h)), Tail(x)) ELSE PFail

\* the elements of an array, after "[" or after a ","
ParseElements(x, acc, json5) ==
  IF x = <<>> THEN PFail
  ELSE IF Head(x) = "]"
    THEN IF acc = <<>> \/ json5 THEN POk(Arr(acc), Tail(x)) ELSE PFail
  ELSE LET r == ParseValue(x, json5) IN
    IF ~r.ok \/ r.rest = <<>> THEN PFail
    ELSE IF Head(r.rest) = "," THEN ParseElements(Tail(r.rest), Append(acc, r.v), json5)
    ELSE IF Head(r.rest) = "]" THEN POk(Arr(Append(acc, r.v)), Tail(r.rest))
    ELSE PFail

\* the members of an object, after "{" or after a ","
ParseMembers(x, ks, acc, json5) ==
  IF x = <<>> THEN PFail
  ELSE IF Head(x) = "}"
    THEN IF acc = <<>> \/ json5 THEN POk(Obj(ks, acc), Tail(x)) ELSE PFail
  ELSE IF Len(x) >= 4 /\ x[1] = "\"" /\ x[3] = "\"" /\ x[4] = ":"
    THEN LET r == ParseValue(SubSeq(x, 5, Len(x)), json5)
             \* a repeated name keeps its place and takes the later value
             at == {i \in 1..Len(ks) : ks[i] = x[2]}
             ks2 == IF at = {} THEN Append(ks, x[2]) ELSE ks
             acc2 == IF at = {} THEN Append(acc, r.v)
                     ELSE [acc EXCEPT ![CHOOSE i \in at : TRUE] = r.v]
         IN IF ~r.ok \/ r.rest = <<>> THEN PFail
            ELSE IF Head(r.rest) = "," THEN ParseMembers(Tail(r.rest), ks2, acc2, json5)
            ELSE IF Head(r.rest) = "}" THEN POk(Obj(ks2, acc2), Tail(r.rest))
            ELSE PFail
  ELSE PFail

\* a whole text is one JSON value
ParseText(x, json5) ==
  LET r == ParseValue(x, json5)
  IN IF r.ok /\ r.rest = <<>> THEN r ELSE PFail

\* JSON.parse(text): the value, or Thrown (SyntaxError)
JSONParse(x) ==
  LET r == ParseText(x, FALSE) IN IF r.ok THEN r.v ELSE Thrown

(***************************************************************************)
(* SQL values (cells) and SQLite's conversions.                            *)
(***************************************************************************)
Cell(t, n, x) == [t |-> t, n |-> n, x |-> x]
SqlNull == Cell("NULL", 0, <<>>)
SqlInt(n) == Cell("INTEGER", n, <<>>)
SqlText(x) == Cell("TEXT", 0, x)

\* a JavaScript value bound to a ? of a statement
Bind(v) ==
  CASE v.t = "number" -> SqlInt(v.n)
    [] v.t = "string" -> SqlText(v.s)
    [] v.t = "true" -> SqlInt(1)
    [] v.t = "false" -> SqlInt(0)
    [] OTHER -> SqlNull

\* a column of a result row as the driver hands it to JavaScript
Column(c) ==
  CASE c.t = "INTEGER" -> Num(c.n)
    [] c.t = "TEXT" -> Str(c.x)
    [] OTHER -> Null

\* the column `value JSON` has NUMERIC affinity: text that is a numeral is
\* stored as an integer; the column `expire_at INTEGER` converts alike
Affinity(c) ==
  IF c.t = "TEXT" /\ Len(c.x) = 1 /\ IsNumeral(c.x[1])
  THEN SqlInt(NumeralValue(c.x[1])) ELSE c

\* a cell used as text (CAST to TEXT)
AsText(c) ==
  CASE c.t = "TEXT" -> c.x
    [] c.t = "INTEGER" -> <<Numeral(c.n)>>
    [] OTHER -> <<>>

\* a cell used as a number (CAST to NUMERIC): the numeric prefix of a text, or 0
AsNumber(c) ==
  CASE c.t = "INTEGER" -> c.n
    [] c.t = "TEXT" -> IF c.x # <<>> /\ IsNumeral(c.x[1]) THEN NumeralValue(c.x[1]) ELSE 0
    [] OTHER -> 0

\* TRUE when a and b compare with SQL's <> as true: NULL compares as unknown,
\* and an INTEGER never equals a TEXT
SqlNotEqual(a, b) ==
  /\ a.t # "NULL"
  /\ b.t # "NULL"
  /\ \/ a.t # b.t
     \/ a.t = "INTEGER" /\ a.n # b.n
     \/ a.t = "TEXT" /\ a.x # b.x

(***************************************************************************)
(* SQLite's JSON functions.  A document is the parsed JSON of a cell:      *)
(* [ok, v]; json5 says whether the build's parser accepts JSON5 input.     *)
(***************************************************************************)
DocFail == [ok |-> FALSE, v |-> Undefined]
DocOk(v) == [ok |-> TRUE, v |-> v]

\* the JSON a function argument holds: NULL is SQL NULL (v = Undefined)
DocOf(c, json5) ==
  CASE c.t = "INTEGER" -> DocOk(Num(c.n))
    [] c.t = "TEXT" -> LET r == ParseText(c.x, json5)
                       IN IF r.ok THEN DocOk(r.v) ELSE DocFail
    [] OTHER -> DocOk(Undefined)

\* the cell a JSON function returns for a document: minified canonical text
DocCell(v) == IF v.t = "undefined" THEN SqlNull ELSE SqlText(Stringify(v))

\* the SQL value of a JSON element, as ->> and json_each.value give it:
\* text for a string, an array or an object, a number for a number or a boolean
ElementCell(v) ==
  CASE v.t = "number" -> SqlInt(v.n)
    [] v.t = "string" -> SqlText(v.s)
    [] v.t = "true" -> SqlInt(1)
    [] v.t = "false" -> SqlInt(0)
    [] v.t \in {"array", "object"} -> SqlText(Stringify(v))
    [] OTHER -> SqlNull

\* the JSON value of an SQL value given to json_array / json_group_array
\* without the JSON subtype: a text is a string
ValueJson(c) ==
  CASE c.t = "INTEGER" -> Num(c.n)
    [] c.t = "TEXT" -> Str(c.x)
    [] OTHER -> Null

\* a json_insert at '$[0]', as the element would go in Redis's LPUSH
JsonInsertFirst(v, elem) == IF v.t = "array" THEN Arr(<<elem>> \o v.a) ELSE v

\* json_insert(doc, '$[#]', elem): append to an array, leave anything else
JsonAppend(v, elem) == IF v.t = "array" THEN Arr(Append(v.a, elem)) ELSE v

\* json_remove(doc, '$[0]')
JsonRemoveFirst(v) == IF v.t = "array" /\ v.a # <<>> THEN Arr(Tail(v.a)) ELSE v

\* json_remove(doc, '$[#-1]')
JsonRemoveLast(v) ==
  IF v.t = "array" /\ v.a # <<>> THEN Arr(SubSeq(v.a, 1, Len(v.a) - 1)) ELSE v

\* doc ->> '$[0]' : SQL NULL when there is no such element
ExtractFirst(v) ==
  IF v.t = "array" /\ v.a # <<>> THEN ElementCell(v.a[1]) ELSE SqlNull

\* doc ->> '$[#-1]'
ExtractLast(v) ==
  IF v.t = "array" /\ v.a # <<>> THEN ElementCell(v.a[Len(v.a)]) ELSE SqlNull

\* json_array_length(doc): 0 for a document that is not an array
JsonArrayLength(v) == IF v.t = "array" THEN Len(v.a) ELSE 0

\* the index of member f of an object, 0 when there is none
MemberIndex(v, f) ==
  IF v.t = "object" /\ \E i \in 1..Len(v.ks) : v.ks[i] = f
  THEN CHOOSE i \in 1..Len(v.ks) : v.ks[i] = f ELSE 0

\* the labels SQLite reads in the path '$.' || field, for the field names
\* of the model: a label ends at a "."
Labels(field) == IF field = "a.b" THEN <<"a", "b">> ELSE <<field>>

RECURSIVE JsonSetPath(_, _, _)
\* json_set(doc, path, elem): set the member the labels lead to, adding the
\* members that are missing on the way; a step into a value that is not an
\* object leaves the document as it is
JsonSetPath(v, labels, elem) ==
  IF labels = <<>> THEN elem
  ELSE IF v.t # "object" THEN v
  ELSE IF MemberIndex(v, Head(labels)) = 0
    THEN Obj(Append(v.ks, Head(labels)),
             Append(v.a, JsonSetPath(Obj(<<>>, <<>>), Tail(labels), elem)))
  ELSE Obj(v.ks, [v.a EXCEPT ![MemberIndex(v, Head(labels))] =
                                JsonSetPath(v.a[MemberIndex(v, Head(labels))],
                                            Tail(labels), elem)])

RECURSIVE ExtractPath(_, _)
\* doc -> path : the value the labels lead to as JSON text, SQL NULL when
\* there is none
ExtractPath(v, labels) ==
  IF labels = <<>> THEN SqlText(Stringify(v))
  ELSE IF MemberIndex(v, Head(labels)) = 0 THEN SqlNull
  ELSE ExtractPath(v.a[MemberIndex(v, Head(labels))], Tail(labels))

\* json_set(doc, '$.${field}', elem)
JsonSetMember(v, f, elem) == JsonSetPath(v, Labels(f), elem)

\* doc -> '$.${field}'
ExtractMember(v, f) == ExtractPath(v, Labels(f))

\* json_each(doc).value in key order: the elements of an array, the members
\* of an object, a scalar itself
JsonEach(v) ==
  IF v.t \in {"array", "object"} THEN [i \in 1..Len(v.a) |-> ElementCell(v.a[i])]
  ELSE IF v.t = "undefined" THEN <<>>
  ELSE <<ElementCell(v)>>

(***************************************************************************)
(* The table of one namespace: a function from the keys that have a row    *)
(* to rows [value, expire_at].  t is the clock: UNIXEPOCH() in SQL and     *)
(* Math.floor(Date.now() / 1000) in JavaScript.                            *)
(***************************************************************************)
Row(value, expire_at) == [value |-> value, expire_at |-> expire_at]

\* a filter with >= in place of >
LiveInclusive(row, t) == row.expire_at.t = "NULL" \/ row.expire_at.n >= t

\* expire_at IS NULL OR expire_at > UNIXEPOCH()
Live(row, t) == row.expire_at.t = "NULL" \/ row.expire_at.n > t

\* the rows a SELECT ... WHERE key = ? AND (expire_at IS NULL OR ...) sees
Visible(tbl, t, k) == k \in DOMAIN tbl /\ Live(tbl[k], t)

Put(tbl, k, row) == [x \in DOMAIN tbl \cup {k} |-> IF x = k THEN row ELSE tbl[x]]
Remove(tbl, ks) == [x \in DOMAIN tbl \ ks |-> tbl[x]]

\* what a handler leaves: the table, the value it returns (Thrown when it
\* throws), and for mget / keys the rows it returns
Outcome(tbl, ret) == [table |-> tbl, ret |-> ret, rows |-> <<>>]
OutcomeRows(tbl, rows) == [table |-> tbl, ret |-> Undefined, rows |-> rows]

\* an encode that serializes only what is not text already
EncodeRaw(value) ==
  IF value.t = "undefined" THEN Str(<<"null">>)
  ELSE IF value.t \in {"number", "string"} THEN value
  ELSE Str(Stringify(value))

\* KV.encode
Encode(value) ==
  IF value.t = "undefined" THEN Str(<<"null">>)
  ELSE IF value.t = "number" THEN value
  ELSE Str(Stringify(value))

\* KV.decode
Decode(value) == IF value.t = "string" THEN JSONParse(value.s) ELSE value

\* a set whose statement is INSERT OR REPLACE whatever nx says
SetStmtReplace(tbl, t, k, value, hasEx, ex, nx) ==
  LET expire_at == IF hasEx THEN SqlInt(ex + t) ELSE SqlNull
  IN Outcome(Put(tbl, k, Row(Affinity(Bind(Encode(value))), expire_at)), True)

\* KV.set: INSERT OR IGNORE | REPLACE INTO t (key, value, expire_at)
SetStmt(tbl, t, k, value, hasEx, ex, nx) ==
  LET expire_at == IF hasEx THEN SqlInt(ex + t) ELSE SqlNull
      row == Row(Affinity(Bind(Encode(value))), expire_at)
  IN IF nx /\ k \in DOMAIN tbl THEN Outcome(tbl, False)
     ELSE Outcome(Put(tbl, k, row), True)

\* KV.get
GetStmt(tbl, t, k) ==
  IF Visible(tbl, t, k) THEN Outcome(tbl, Decode(Column(tbl[k].value)))
  ELSE Outcome(tbl, Undefined)

\* an mset as an upsert that patches the value of a row that is there
MsetStmtUpsert(tbl, t, obj) ==
  IF DOMAIN obj = {} THEN Outcome(tbl, Thrown)
  ELSE Outcome([x \in DOMAIN tbl \cup DOMAIN obj |->
                  IF x \in DOMAIN obj
                  THEN Row(Affinity(Bind(Encode(obj[x]))),
                           IF x \in DOMAIN tbl THEN tbl[x].expire_at ELSE SqlNull)
                  ELSE tbl[x]],
               Undefined)

\* KV.mset: obj maps keys to values; no value list is a syntax error
MsetStmt(tbl, t, obj) ==
  IF DOMAIN obj = {} THEN Outcome(tbl, Thrown)
  ELSE Outcome([x \in DOMAIN tbl \cup DOMAIN obj |->
                  IF x \in DOMAIN obj
                  THEN Row(Affinity(Bind(Encode(obj[x]))), SqlNull) ELSE tbl[x]],
               Undefined)

\* KV.mget: the decoded values of the requested keys that are visible
MgetStmt(tbl, t, ks) ==
  LET found == {k \in ks : Visible(tbl, t, k)}
      rows == [k \in found |-> Decode(Column(tbl[k].value))]
  IN IF \E k \in found : rows[k].t = "error" THEN Outcome(tbl, Thrown)
     ELSE OutcomeRows(tbl, rows)

\* a del that passes over the rows that have expired
DelStmtVisible(tbl, t, ks) ==
  Outcome([x \in {y \in DOMAIN tbl : ~(y \in ks /\ Live(tbl[y], t))} |-> tbl[x]], Undefined)

\* KV.del
DelStmt(tbl, t, ks) == Outcome(Remove(tbl, ks), Undefined)

\* an upsert whose conflict clause stores the inserted value: SET value = excluded.value
AddStmtExcluded(tbl, t, k, d) ==
  Outcome(Put(tbl, k, Row(SqlInt(d), IF k \in DOMAIN tbl THEN tbl[k].expire_at ELSE SqlNull)),
          Num(d))

\* KV.incr / KV.decr: INSERT ... VALUES (?, d) ON CONFLICT(key) DO UPDATE
\* SET value = value + d RETURNING value, then parseInt
AddStmt(tbl, t, k, d) ==
  LET value == IF k \in DOMAIN tbl THEN SqlInt(AsNumber(tbl[k].value) + d) ELSE SqlInt(d)
      row == IF k \in DOMAIN tbl THEN Row(value, tbl[k].expire_at) ELSE Row(value, SqlNull)
  IN Outcome(Put(tbl, k, row), Num(value.n))

IncrStmt(tbl, t, k) == AddStmt(tbl, t, k, 1)
DecrStmt(tbl, t, k) == AddStmt(tbl, t, k, -1)

\* KV.expire: UPDATE t SET expire_at = UNIXEPOCH() + ? WHERE key = ?
ExpireStmt(tbl, t, k, seconds) ==
  IF k \in DOMAIN tbl
  THEN Outcome([tbl EXCEPT ![k].expire_at = SqlInt(t + seconds)], Undefined)
  ELSE Outcome(tbl, Undefined)

\* JavaScript's truthiness of a column: null and 0 are falsy
Truthy(c) == (c.t = "TEXT" /\ c.x # <<>>) \/ (c.t = "INTEGER" /\ c.n # 0)

\* KV.ttl
TtlStmt(tbl, t, k) ==
  IF k \notin DOMAIN tbl THEN Outcome(tbl, Num(-2))
  ELSE LET e == tbl[k].expire_at IN
    IF Truthy(e) /\ e.n <= t THEN Outcome(tbl, Num(-2))
    ELSE IF ~Truthy(e) THEN Outcome(tbl, Num(-1))
    ELSE Outcome(tbl, Num(e.n - t))

(***************************************************************************)
(* List commands.  A failed statement (malformed JSON) throws and leaves   *)
(* the table as it was.                                                    *)
(***************************************************************************)
\* the stored value with the row's document replaced by a JSON function's result
Patched(tbl, k, v) == [tbl EXCEPT ![k].value = Affinity(DocCell(v))]

\* KV.lpush: VALUES (?, json_array(json(?))) ON CONFLICT(key) DO UPDATE
\* SET value = json_insert(value, '$[#]', json(?))
LpushStmt(tbl, t, k, value, json5) ==
  LET elem == DocOf(Bind(Encode(value)), json5)
      doc == DocOf(tbl[k].value, json5)
  IN IF ~elem.ok THEN Outcome(tbl, Thrown)
     ELSE IF k \notin DOMAIN tbl
       THEN Outcome(Put(tbl, k, Row(Affinity(DocCell(Arr(<<elem.v>>))), SqlNull)), Undefined)
     ELSE IF ~doc.ok THEN Outcome(tbl, Thrown)
     ELSE Outcome(Patched(tbl, k, JsonAppend(doc.v, elem.v)), Undefined)

\* SQL substr(value, 2): the text without its first character.  A stored
\* text starts with [ { or " or is one of true false null; without the first
\* character of one of these words what is left holds no JSON token either.
Substr2(c) == IF AsText(c) = <<>> THEN <<>> ELSE Tail(AsText(c))

\* an rpush with lpush's statement: the element goes in at '$[#]'
RpushStmtAppend(tbl, t, k, value, json5) == LpushStmt(tbl, t, k, value, json5)

\* KV.rpush: val = JSON.stringify([value]); VALUES (?, json(?)) ON CONFLICT(key)
\* DO UPDATE SET value = json(? || substr(value, 2)), bound to val and to
\* val.slice(0, -1) + ','
RpushStmt(tbl, t, k, value, json5) ==
  LET val == Stringify(Arr(<<value>>))
      fresh == DocOf(SqlText(val), json5)
      glued == DocOf(SqlText(SubSeq(val, 1, Len(val) - 1) \o <<",">> \o Substr2(tbl[k].value)),
                     json5)
  IN IF k \notin DOMAIN tbl
       THEN IF fresh.ok
              THEN Outcome(Put(tbl, k, Row(Affinity(DocCell(fresh.v)), SqlNull)), Undefined)
              ELSE Outcome(tbl, Thrown)
     ELSE IF glued.ok THEN Outcome(Patched(tbl, k, glued.v), Undefined)
     ELSE Outcome(tbl, Thrown)

\* an lpop that deletes the row with its last element, as Redis does
LpopStmtDeleting(tbl, t, k, json5) ==
  LET doc == DocOf(tbl[k].value, json5)
  IN IF ~Visible(tbl, t, k) THEN Outcome(tbl, Undefined)
     ELSE IF ~doc.ok THEN Outcome(tbl, Thrown)
     ELSE IF JsonArrayLength(doc.v) <= 1
       THEN Outcome(Remove(tbl, {k}), Column(ExtractFirst(doc.v)))
     ELSE Outcome(Patched(tbl, k, JsonRemoveFirst(doc.v)), Column(ExtractFirst(doc.v)))

\* KV.lpop: one batch of SELECT value ->> '$[0]' and UPDATE ... json_remove(value,
\* "$[0]"), both WHERE key = ? AND not expired; returns the selected column
LpopStmt(tbl, t, k, json5) ==
  LET doc == DocOf(tbl[k].value, json5)
  IN IF ~Visible(tbl, t, k) THEN Outcome(tbl, Undefined)
     ELSE IF ~doc.ok THEN Outcome(tbl, Thrown)
     ELSE Outcome(Patched(tbl, k, JsonRemoveFirst(doc.v)), Column(ExtractFirst(doc.v)))

\* KV.rpop: the same batch with '$[#-1]'
RpopStmt(tbl, t, k, json5) ==
  LET doc == DocOf(tbl[k].value, json5)
  IN IF ~Visible(tbl, t, k) THEN Outcome(tbl, Undefined)
     ELSE IF ~doc.ok THEN Outcome(tbl, Thrown)
     ELSE Outcome(Patched(tbl, k, JsonRemoveLast(doc.v)), Column(ExtractLast(doc.v)))

\* the statements of the batches of KV.lpop and KV.rpop, one by one: what the
\* SELECT returns to the caller, and the table the UPDATE leaves
LpopSelect(tbl, t, k, json5) ==
  LET doc == DocOf(tbl[k].value, json5)
  IN IF ~Visible(tbl, t, k) THEN Undefined
     ELSE IF ~doc.ok THEN Thrown
     ELSE Column(ExtractFirst(doc.v))

LpopUpdate(tbl, t, k, json5) ==
  LET doc == DocOf(tbl[k].value, json5)
  IN IF ~Visible(tbl, t, k) \/ ~doc.ok THEN tbl
     ELSE Patched(tbl, k, JsonRemoveFirst(doc.v))

RpopSelect(tbl, t, k, json5) ==
  LET doc == DocOf(tbl[k].value, json5)
  IN IF ~Visible(tbl, t, k) THEN Undefined
     ELSE IF ~doc.ok THEN Thrown
     ELSE Column(ExtractLast(doc.v))

RpopUpdate(tbl, t, k, json5) ==
  LET doc == DocOf(tbl[k].value, json5)
  IN IF ~Visible(tbl, t, k) \/ ~doc.ok THEN tbl
     ELSE Patched(tbl, k, JsonRemoveLast(doc.v))

\* Array.prototype.slice(start) and String.prototype.slice(start)
Slice(a, start) ==
  LET from == IF start < 0 THEN (IF Len(a) + start < 0 THEN 0 ELSE Len(a) + start)
              ELSE start
  IN SubSeq(a, from + 1, Len(a))

\* Array.prototype.slice(start, end)
Slice2(a, start, end) ==
  LET from == IF start < 0 THEN (IF Len(a) + start < 0 THEN 0 ELSE Len(a) + start)
              ELSE start
      to == IF end < 0 THEN (IF Len(a) + end < 0 THEN 0 ELSE Len(a) + end)
            ELSE IF end > Len(a) THEN Len(a) ELSE end
  IN SubSeq(a, from + 1, to)

\* the value of the assignment expression `end = -1` that KV.lrange tests
EndTest(end) == -1

\* KV.lrange: JSON.parse(result.value), then
\* `end = -1 ? arr.slice(start) : arr.slice(start, end + 1)`
LrangeStmt(tbl, t, k, start, end) ==
  IF ~Visible(tbl, t, k) \/ ~Truthy(tbl[k].value) THEN Outcome(tbl, Arr(<<>>))
  ELSE LET arr == JSONParse(AsText(tbl[k].value)) IN
    IF arr.t = "array"
      THEN Outcome(tbl, Arr(IF EndTest(end) # 0 THEN Slice(arr.a, start)
                            ELSE Slice2(arr.a, start, end + 1)))
    ELSE IF arr.t = "string"
      THEN Outcome(tbl, Str(IF EndTest(end) # 0 THEN Slice(arr.s, start)
                            ELSE Slice2(arr.s, start, end + 1)))
    ELSE Outcome(tbl, Thrown)

\* KV.llen: SELECT json_array_length(value)
LlenStmt(tbl, t, k, json5) ==
  LET doc == DocOf(tbl[k].value, json5)
  IN IF ~Visible(tbl, t, k) THEN Outcome(tbl, Num(0))
     ELSE IF ~doc.ok THEN Outcome(tbl, Thrown)
     ELSE Outcome(tbl, Num(JsonArrayLength(doc.v)))

\* ROW_NUMBER() OVER (PARTITION BY el.value ORDER BY el.key ASC | DESC) of
\* element i: its rank among the elements with the same SQL value
RowNumber(cells, i, asc) ==
  Cardinality({j \in 1..Len(cells) :
                 cells[j] = cells[i] /\ (IF asc THEN j <= i ELSE j >= i)})

\* the rows of a sequence that pass a filter, in order
RECURSIVE Keep(_, _, _)
Keep(cells, pass, i) ==
  IF i > Len(cells) THEN <<>>
  ELSE (IF i \in pass THEN <<ValueJson(cells[i])>> ELSE <<>>) \o Keep(cells, pass, i + 1)

\* KV.lrem: UPDATE t SET value = (SELECT json_group_array(...) ...) WHERE key = ?
\* The subquery reads the elements of a row that is not expired, keeps
\* `el.value <> ?` (count = 0) or `value <> ? OR rn > ?` (count # 0); the
\* UPDATE itself is not restricted to rows that are not expired.
LremStmt(tbl, t, k, count, element, json5) ==
  LET doc == DocOf(tbl[k].value, json5)
      cells == IF Live(tbl[k], t) THEN JsonEach(doc.v) ELSE <<>>
      e == Bind(element)
      n == IF count < 0 THEN -count ELSE count
      pass == {i \in 1..Len(cells) :
                 \/ SqlNotEqual(cells[i], e)
                 \/ count # 0 /\ RowNumber(cells, i, count > 0) > n}
  IN IF k \notin DOMAIN tbl THEN Outcome(tbl, Undefined)
     ELSE IF ~doc.ok THEN Outcome(tbl, Thrown)
     ELSE Outcome(Patched(tbl, k, Arr(Keep(cells, pass, 1))), Undefined)

(***************************************************************************)
(* Hash commands.                                                          *)
(***************************************************************************)
\* KV.hset: VALUES (?, json_object(?, json(?))) ON CONFLICT(key) DO UPDATE
\* SET value = json_set(value, '$.field', json(?))
HsetStmt(tbl, t, k, field, value, json5) ==
  LET elem == DocOf(Bind(Encode(value)), json5)
      doc == DocOf(tbl[k].value, json5)
  IN IF ~elem.ok THEN Outcome(tbl, Thrown)
     ELSE IF k \notin DOMAIN tbl
       THEN Outcome(Put(tbl, k, Row(Affinity(DocCell(Obj(<<field>>, <<elem.v>>))), SqlNull)),
                    Undefined)
     ELSE IF ~doc.ok THEN Outcome(tbl, Thrown)
     ELSE Outcome(Patched(tbl, k, JsonSetMember(doc.v, field, elem.v)), Undefined)

\* KV.hget: SELECT value -> '$.field', decoded
HgetStmt(tbl, t, k, field, json5) ==
  LET doc == DocOf(tbl[k].value, json5)
  IN IF ~Visible(tbl, t, k) THEN Outcome(tbl, Undefined)
     ELSE IF ~doc.ok THEN Outcome(tbl, Thrown)
     ELSE Outcome(tbl, Decode(Column(ExtractMember(doc.v, field))))

\* KV.hgetall: SELECT value ->> '$', decoded
HgetallStmt(tbl, t, k, json5) ==
  LET doc == DocOf(tbl[k].value, json5)
  IN IF ~Visible(tbl, t, k) THEN Outcome(tbl, Undefined)
     ELSE IF ~doc.ok THEN Outcome(tbl, Thrown)
     ELSE Outcome(tbl, Decode(Column(ElementCell(doc.v))))

(***************************************************************************)
(* KV.keys: the glob is rewritten to a LIKE pattern and spliced into the   *)
(* statement.  Keys and patterns are sequences of single characters.       *)
(***************************************************************************)
RECURSIVE ReplaceAll(_, _, _)
\* String.prototype.replaceAll(c, by) for a single character c
ReplaceAll(x, c, by) ==
  IF x = <<>> THEN <<>>
  ELSE (IF Head(x) = c THEN by ELSE <<Head(x)>>) \o ReplaceAll(Tail(x), c, by)

Includes(x, c) == \E i \in 1..Len(x) : x[i] = c

\* whether KV.keys adds ESCAPE '\'
NeedsEscape(pattern) == Includes(pattern, "_") \/ Includes(pattern, "%")

\* the LIKE pattern KV.keys builds from a glob
LikePattern(pattern) ==
  LET escaped == IF NeedsEscape(pattern)
                 THEN ReplaceAll(ReplaceAll(pattern, "_", <<"\\", "_">>), "%", <<"\\", "%">>)
                 ELSE pattern
  IN ReplaceAll(ReplaceAll(escaped, "?", <<"_">>), "*", <<"%">>)

\* LIKE compares ASCII letters without regard to case
Fold(c) == CASE c = "K" -> "k" [] c = "A" -> "a" [] OTHER -> c

RECURSIVE Like(_, _, _)
\* SQLite's  x LIKE p [ESCAPE '\']
Like(p, x, escape) ==
  IF p = <<>> THEN x = <<>>
  ELSE IF Head(p) = "%"
    THEN \E i \in 0..Len(x) : Like(Tail(p), SubSeq(x, i + 1, Len(x)), escape)
  ELSE IF Head(p) = "_" THEN x # <<>> /\ Like(Tail(p), Tail(x), escape)
  ELSE IF escape /\ Head(p) = "\\"
    THEN /\ Len(p) >= 2
         /\ x # <<>>
         /\ Fold(p[2]) = Fold(Head(x))
         /\ Like(Tail(Tail(p)), Tail(x), escape)
  ELSE x # <<>> /\ Fold(Head(p)) = Fold(Head(x)) /\ Like(Tail(p), Tail(x), escape)

\* KV.keys: a quote in the pattern ends the SQL string literal early, and
\* the statement does not compile
KeysStmt(tbl, t, pattern) ==
  IF Includes(pattern, "'") THEN Outcome(tbl, Thrown)
  ELSE OutcomeRows(tbl, [k \in {x \in DOMAIN tbl :
                                  /\ Like(LikePattern(pattern), x, NeedsEscape(pattern))
                                  /\ Live(tbl[x], t)} |-> Str(k)])

(***************************************************************************)
(* State.                                                                  *)
(*   table          the rows of the namespace's table                      *)
(*   now            the clock, in seconds                                  *)
(*   json5          whether the database's JSON parser accepts JSON5       *)
(*   initialized    KV.initialized                                         *)
(*   initialization KV.initialization: "none", or the state of the promise *)
(*                  of the schema statement: "pending", "fulfilled",       *)
(*                  "rejected"                                             *)
(*   issued         the number of schema statements the object has issued  *)
(*   last           the last call: the command, its arguments, and what it *)
(*                  returned (ret, rows)                                   *)
(*   lastSet        the last set(k, v, {ex}) that stored a row, while no   *)
(*                  later command has changed or may have changed k        *)
(*   callers        the concurrent callers of SpecCounter                  *)
(***************************************************************************)
VARIABLES table, now, json5, initialized, initialization, issued, last, lastSet, callers,
          schema, stores

vars ==
  <<table, now, json5, initialized, initialization, issued, last, lastSet, callers, schema,
    stores>>

\* the schema of the database: the tables that exist, and for every index
\* that exists the table it is on
NoSchema == [tables |-> {}, indexes |-> <<>>]

\* the KV objects that share the database beside the one of the commands
NoStores == <<>>

\* `private table = 'kv_store'`, and the name the index is created under
TableName == "kv_store"
IndexName == "idx_expire_at"

\* db.exec of KV.init for table name: CREATE TABLE IF NOT EXISTS name (...);
\* CREATE INDEX IF NOT EXISTS idx_expire_at ON name (expire_at).  An index
\* name belongs to the database: with an index of that name there, on
\* whatever table, the second statement does nothing
Exec(s, name) ==
  [tables |-> s.tables \cup {name},
   indexes |-> IF IndexName \in DOMAIN s.indexes THEN s.indexes
               ELSE [x \in {IndexName} |-> name]]

\* the keys, values and other arguments the commands are called with
K1 == <<"k", "1">>
K2 == <<"k", "_">>
Keys == {K1}
Values == {Num(1), Str(<<"a">>)}
Elements == {Num(1)}
Fields == {"f"}
Patterns == {<<"*">>, <<"k", "?">>, <<"k", "_">>}
Seconds == -MaxSec..MaxSec
Indexes == 0..1
ListElements == {Num(1), Str(<<"a">>), Null}
ListIndexes == 0..MaxLen
Counts == -2..2

NoCall ==
  [op |-> "none", key |-> <<>>, value |-> Undefined, field |-> "", a |-> 0, b |-> 0,
   nx |-> FALSE, ex |-> FALSE, keys |-> {}, pattern |-> <<>>, obj |-> <<>>,
   ret |-> Undefined, rows |-> <<>>]

NoSet == [valid |-> FALSE, key |-> <<>>, value |-> Undefined, at |-> 0, ex |-> 0]

\* a call of command op on key k that left outcome out
Called(op, k, out) == [NoCall EXCEPT !.op = op, !.key = k, !.ret = out.ret, !.rows = out.rows]

\* every handler starts with `this.initialized || await this.init()`: the
\* first one runs the schema statement, whose completion sets the flag
EnsureReady ==
  /\ initialized' = TRUE
  /\ initialization' = "fulfilled"
  /\ schema' = IF initialization = "fulfilled" THEN schema ELSE Exec(schema, TableName)
  /\ UNCHANGED stores
  /\ issued' = IF initialization = "none" THEN issued + 1 ELSE issued

\* lastSet after a command that targets the keys ks
Forget(ks) == IF lastSet.valid /\ lastSet.key \in ks THEN NoSet ELSE lastSet

\* a handler that reads: the table stays
Read(call, out) ==
  /\ EnsureReady
  /\ table' = out.table
  /\ last' = call
  /\ UNCHANGED <<now, json5, lastSet, callers>>

\* a handler that writes to the keys ks
Write(call, out, ks) ==
  /\ EnsureReady
  /\ table' = out.table
  /\ last' = call
  /\ lastSet' = Forget(ks)
  /\ UNCHANGED <<now, json5, callers>>

Set(k, value, hasEx, ex, nx) ==
  LET out == SetStmt(table, now, k, value, hasEx, ex, nx)
  IN /\ EnsureReady
     /\ table' = out.table
     /\ last' = [Called("set", k, out) EXCEPT !.value = value, !.ex = hasEx, !.a = ex, !.nx = nx]
     /\ lastSet' = IF hasEx /\ out.ret = True
                   THEN [valid |-> TRUE, key |-> k, value |-> value, at |-> now, ex |-> ex]
                   ELSE Forget({k})
     /\ UNCHANGED <<now, json5, callers>>

Get(k) == Read(Called("get", k, GetStmt(table, now, k)), GetStmt(table, now, k))

Mset(obj) ==
  Write([Called("mset", <<>>, MsetStmt(table, now, obj)) EXCEPT !.obj = obj],
        MsetStmt(table, now, obj), DOMAIN obj)

Mget(ks) ==
  Read([Called("mget", <<>>, MgetStmt(table, now, ks)) EXCEPT !.keys = ks],
       MgetStmt(table, now, ks))

KeysOf(pattern) ==
  Read([Called("keys", <<>>, KeysStmt(table, now, pattern)) EXCEPT !.pattern = pattern],
       KeysStmt(table, now, pattern))

Del(ks) ==
  Write([Called("del", <<>>, DelStmt(table, now, ks)) EXCEPT !.keys = ks],
        DelStmt(table, now, ks), ks)

\* the model keeps counters within -MaxCount..MaxCount
Incr(k) ==
  /\ k \in DOMAIN table => AsNumber(table[k].value) < MaxCount
  /\ Write(Called("incr", k, IncrStmt(table, now, k)), IncrStmt(table, now, k), {k})

Decr(k) ==
  /\ k \in DOMAIN table => AsNumber(table[k].value) > -MaxCount
  /\ Write(Called("decr", k, DecrStmt(table, now, k)), DecrStmt(table, now, k), {k})

Expire(k, seconds) ==
  Write([Called("expire", k, ExpireStmt(table, now, k, seconds)) EXCEPT !.a = seconds],
        ExpireStmt(table, now, k, seconds), {k})

Ttl(k) == Read(Called("ttl", k, TtlStmt(table, now, k)), TtlStmt(table, now, k))

\* the number of elements of the list document at k, 0 when there is none
Stored(k) ==
  IF k \in DOMAIN table /\ DocOf(table[k].value, json5).ok
  THEN JsonArrayLength(DocOf(table[k].value, json5).v) ELSE 0

\* the model keeps lists within MaxLen elements
Lpush(k, value) ==
  /\ Stored(k) < MaxLen
  /\ Write([Called("lpush", k, LpushStmt(table, now, k, value, json5)) EXCEPT !.value = value],
           LpushStmt(table, now, k, value, json5), {k})

Rpush(k, value) ==
  /\ Stored(k) < MaxLen
  /\ Write([Called("rpush", k, RpushStmt(table, now, k, value, json5)) EXCEPT !.value = value],
           RpushStmt(table, now, k, value, json5), {k})

Lpop(k) ==
  Write(Called("lpop", k, LpopStmt(table, now, k, json5)), LpopStmt(table, now, k, json5), {k})

Rpop(k) ==
  Write(Called("rpop", k, RpopStmt(table, now, k, json5)), RpopStmt(table, now, k, json5), {k})

Lrange(k, start, end) ==
  Read([Called("lrange", k, LrangeStmt(table, now, k, start, end))
          EXCEPT !.a = start, !.b = end],
       LrangeStmt(table, now, k, start, end))

Llen(k) == Read(Called("llen", k, LlenStmt(table, now, k, json5)), LlenStmt(table, now, k, json5))

Lrem(k, count, element) ==
  Write([Called("lrem", k, LremStmt(table, now, k, count, element, json5))
           EXCEPT !.a = count, !.value = element],
        LremStmt(table, now, k, count, element, json5), {k})

Hset(k, field, value) ==
  Write([Called("hset", k, HsetStmt(table, now, k, field, value, json5))
           EXCEPT !.field = field, !.value = value],
        HsetStmt(table, now, k, field, value, json5), {k})

Hget(k, field) ==
  Read([Called("hget", k, HgetStmt(table, now, k, field, json5)) EXCEPT !.field = field],
       HgetStmt(table, now, k, field, json5))

Hgetall(k) ==
  Read(Called("hgetall", k, HgetallStmt(table, now, k, json5)), HgetallStmt(table, now, k, json5))

\* a second passes
Tick ==
  /\ now < MaxNow
  /\ now' = now + 1
  /\ last' = [NoCall EXCEPT !.op = "tick"]
  /\ UNCHANGED <<table, json5, initialized, initialization, issued, lastSet, callers,
                 schema, stores>>

NoCallers == <<>>

Init ==
  /\ table = <<>>
  /\ now = 1
  /\ json5 \in BOOLEAN
  /\ initialized = FALSE
  /\ initialization = "none"
  /\ issued = 0
  /\ last = NoCall
  /\ schema = NoSchema
  /\ stores = NoStores
  /\ lastSet = NoSet
  /\ callers = NoCallers

Next ==
  \/ \E k \in Keys, v \in Values, hasEx \in BOOLEAN, ex \in Seconds, nx \in BOOLEAN :
       (hasEx \/ ex = 0) /\ Set(k, v, hasEx, ex, nx)
  \/ \E k \in Keys : Get(k)
  \/ \E ks \in SUBSET Keys : \E obj \in [ks -> Values] : Mset(obj)
  \/ \E ks \in SUBSET Keys : Mget(ks)
  \/ \E p \in Patterns : KeysOf(p)
  \/ \E ks \in SUBSET Keys : Del(ks)
  \/ \E k \in Keys : Incr(k)
  \/ \E k \in Keys : Decr(k)
  \/ \E k \in Keys, s \in Seconds : Expire(k, s)
  \/ \E k \in Keys : Ttl(k)
  \/ \E k \in Keys, v \in Elements : Lpush(k, v)
  \/ \E k \in Keys, v \in Elements : Rpush(k, v)
  \/ \E k \in Keys : Lpop(k)
  \/ \E k \in Keys : Rpop(k)
  \/ \E k \in Keys, start \in Indexes, end \in {-1, 0} : Lrange(k, start, end)
  \/ \E k \in Keys : Llen(k)
  \/ \E k \in Keys, count \in {-1, 0, 1}, e \in Elements : Lrem(k, count, e)
  \/ \E k \in Keys, f \in Fields, v \in Values : Hset(k, f, v)
  \/ \E k \in Keys, f \in Fields : Hget(k, f)
  \/ \E k \in Keys : Hgetall(k)
  \/ Tick

Spec == Init /\ [][Next]_vars

(***************************************************************************)
(* SpecList: the list commands on one key, with elements of several types  *)
(* and every range and count.                                              *)
(***************************************************************************)
NextList ==
  \/ \E v \in ListElements : Lpush(K1, v)
  \/ \E v \in ListElements : Rpush(K1, v)
  \/ Lpop(K1)
  \/ Rpop(K1)
  \/ \E start \in ListIndexes, end \in {-1} \cup ListIndexes : Lrange(K1, start, end)
  \/ Llen(K1)
  \/ \E count \in Counts, e \in ListElements : Lrem(K1, count, e)
  \/ Del({K1})

SpecList == Init /\ [][NextList]_vars

(***************************************************************************)
(* SpecCounter: NCallers concurrent callers of incr(K1) or decr(K1) on one *)
(* KV object whose table holds no row.  A caller is at                     *)
(*   "call"       before `this.initialized || await this.init()`           *)
(*   "await"      awaiting the promise of init()                           *)
(*   "statement"  its statement is on its way to the database              *)
(*   "done"       the statement has run and the caller has its result      *)
(* The database runs one statement at a time, each of them atomically.     *)
(***************************************************************************)
Callers == 1..NCallers

Caller(op) == [op |-> op, pc |-> "call", ret |-> Undefined]

At(c, pc) == [callers EXCEPT ![c].pc = pc]

\* an init() without `if (!this.initialization)`: every call of it issues the
\* schema statement
EnterUnguarded(c) ==
  /\ callers[c].pc = "call"
  /\ IF initialized
       THEN callers' = At(c, "statement") /\ UNCHANGED <<initialization, issued>>
       ELSE /\ callers' = At(c, "await")
            /\ initialization' = IF initialization = "none" THEN "pending" ELSE initialization
            /\ issued' = issued + 1
  /\ UNCHANGED <<table, now, json5, initialized, last, lastSet, schema, stores>>

\* `this.initialized || await this.init()`; init() starts the schema statement
\* unless a promise of it is there already
Enter(c) ==
  /\ callers[c].pc = "call"
  /\ IF initialized
       THEN callers' = At(c, "statement") /\ UNCHANGED <<initialization, issued>>
       ELSE /\ callers' = At(c, "await")
            /\ initialization' = IF initialization = "none" THEN "pending" ELSE initialization
            /\ issued' = IF initialization = "none" THEN issued + 1 ELSE issued
  /\ UNCHANGED <<table, now, json5, initialized, last, lastSet, schema, stores>>

\* the schema statement completes: `.then(() => this.initialized = true)`
Initialized ==
  /\ initialization = "pending"
  /\ initialization' = "fulfilled"
  /\ initialized' = TRUE
  /\ schema' = Exec(schema, TableName)
  /\ UNCHANGED <<table, now, json5, issued, last, lastSet, callers, stores>>

\* a caller that calls init() without awaiting it
ResumeEarly(c) ==
  /\ callers[c].pc = "await"
  /\ callers' = At(c, "statement")
  /\ UNCHANGED <<table, now, json5, initialized, initialization, issued, last, lastSet,
                 schema, stores>>

\* a caller awaiting init() goes on once the promise is fulfilled
Resume(c) ==
  /\ callers[c].pc = "await"
  /\ initialization = "fulfilled"
  /\ callers' = At(c, "statement")
  /\ UNCHANGED <<table, now, json5, initialized, initialization, issued, last, lastSet,
                 schema, stores>>

\* the database runs the caller's statement; the caller returns its value
Run(c) ==
  LET out == IF callers[c].op = "incr" THEN IncrStmt(table, now, K1)
             ELSE DecrStmt(table, now, K1)
  IN /\ callers[c].pc = "statement"
     /\ table' = out.table
     /\ callers' = [callers EXCEPT ![c].pc = "done", ![c].ret = out.ret]
     /\ last' = Called(callers[c].op, K1, out)
     /\ UNCHANGED <<now, json5, initialized, initialization, issued, lastSet, schema, stores>>

InitCounter ==
  /\ table = <<>>
  /\ now = 1
  /\ json5 \in BOOLEAN
  /\ initialized = FALSE
  /\ initialization = "none"
  /\ issued = 0
  /\ last = NoCall
  /\ schema = NoSchema
  /\ stores = NoStores
  /\ lastSet = NoSet
  /\ callers \in [Callers -> {Caller("incr"), Caller("decr")}]

NextCounter ==
  \/ \E c \in Callers : Enter(c)
  \/ Initialized
  \/ \E c \in Callers : Resume(c)
  \/ \E c \in Callers : Run(c)

SpecCounter == InitCounter /\ [][NextCounter]_vars

(***************************************************************************)
(* SpecPop: NCallers concurrent callers of lpush, rpush, lpop or rpop on   *)
(* K1, each push with an element of its own.  A pop is a batch of two      *)
(* statements: between its SELECT and its UPDATE the caller is at          *)
(* "selected".  The database runs the statements of a batch with no        *)
(* statement of another caller in between.                                 *)
(***************************************************************************)
ListCaller(op, value) == [op |-> op, pc |-> "call", ret |-> Undefined, value |-> value]

\* a batch that has run its SELECT and not yet its UPDATE
InBatch == {c \in DOMAIN callers : callers[c].pc = "selected"}

\* a store that runs the statements of a batch like separate statements
Interleaved(c) == TRUE

\* db.batch: the database takes no statement of a caller while the batch of
\* another caller is running
Exclusive(c) == InBatch \subseteq {c}

\* the statement of lpush / rpush runs
RunPush(c) ==
  LET out == IF callers[c].op = "lpush"
             THEN LpushStmt(table, now, K1, callers[c].value, json5)
             ELSE RpushStmt(table, now, K1, callers[c].value, json5)
  IN /\ callers[c].pc = "statement"
     /\ callers[c].op \in {"lpush", "rpush"}
     /\ Exclusive(c)
     /\ table' = out.table
     /\ callers' = [callers EXCEPT ![c].pc = "done", ![c].ret = out.ret]
     /\ UNCHANGED <<now, json5, initialized, initialization, issued, last, lastSet,
                    schema, stores>>

\* the first statement of the batch of lpop / rpop runs
Select(c) ==
  /\ callers[c].pc = "statement"
  /\ callers[c].op \in {"lpop", "rpop"}
  /\ Exclusive(c)
  /\ callers' = [callers EXCEPT
       ![c].pc = "selected",
       ![c].ret = IF callers[c].op = "lpop" THEN LpopSelect(table, now, K1, json5)
                  ELSE RpopSelect(table, now, K1, json5)]
  /\ UNCHANGED <<table, now, json5, initialized, initialization, issued, last, lastSet,
                 schema, stores>>

\* the second statement of the batch runs; the caller returns what the first selected
Update(c) ==
  /\ callers[c].pc = "selected"
  /\ Exclusive(c)
  /\ table' = IF callers[c].op = "lpop" THEN LpopUpdate(table, now, K1, json5)
              ELSE RpopUpdate(table, now, K1, json5)
  /\ callers' = At(c, "done")
  /\ UNCHANGED <<now, json5, initialized, initialization, issued, last, lastSet,
                 schema, stores>>

InitPop ==
  /\ table = <<>>
  /\ now = 1
  /\ json5 \in BOOLEAN
  /\ initialized = FALSE
  /\ initialization = "none"
  /\ issued = 0
  /\ last = NoCall
  /\ schema = NoSchema
  /\ stores = NoStores
  /\ lastSet = NoSet
  /\ callers \in {f \in [Callers -> {ListCaller(op, Num(c)) :
                                        op \in {"lpush", "rpush", "lpop", "rpop"},
                                        c \in Callers}] :
                    \A c \in Callers : f[c].value = Num(c)}

NextPop ==
  \/ \E c \in Callers : Enter(c)
  \/ Initialized
  \/ \E c \in Callers : Resume(c)
  \/ \E c \in Callers : RunPush(c)
  \/ \E c \in Callers : Select(c)
  \/ \E c \in Callers : Update(c)

SpecPop == InitPop /\ [][NextPop]_vars

(***************************************************************************)
(* SpecCodec: set, get and del on one key with values of every kind: the   *)
(* numbers, strings (among them texts that look like a number or like      *)
(* JSON), booleans, null, arrays and objects, and undefined.               *)
(***************************************************************************)
CodecValues ==
  {Undefined, Null, True, False, Num(0), Num(1), Num(-1),
   Str(<<>>), Str(<<"a">>), Str(<<"1">>), Str(<<"true">>), Str(<<"null">>),
   Str(<<"\"">>), Str(<<"\\">>), Str(<<"[", "1", "]">>), Str(<<"{", "}">>),
   Arr(<<>>), Arr(<<Num(1), Str(<<"1">>), Null, False>>), Arr(<<Arr(<<>>)>>),
   Obj(<<>>, <<>>), Obj(<<"f">>, <<Null>>), Obj(<<"f", "g">>, <<Arr(<<Num(1)>>), Str(<<"a">>)>>)}

NextCodec ==
  \/ \E v \in CodecValues, nx \in BOOLEAN : Set(K1, v, FALSE, 0, nx)
  \/ Get(K1)
  \/ Del({K1})

SpecCodec == Init /\ [][NextCodec]_vars

(***************************************************************************)
(* SpecInit: a KV object constructed with or without `initialize: true`,   *)
(* whose schema statement succeeds or fails, and NCallers concurrent       *)
(* callers of incr(K1) (one data statement) or lpop(K1) (one batch).       *)
(***************************************************************************)
\* the schema statement fails: the promise is rejected, and the callback
\* that sets this.initialized does not run
Rejected ==
  /\ initialization = "pending"
  /\ initialization' = "rejected"
  /\ UNCHANGED <<table, now, json5, initialized, issued, last, lastSet, callers,
                 schema, stores>>

\* `await this.init()` throws in a caller awaiting a rejected promise
Fail(c) ==
  /\ callers[c].pc = "await"
  /\ initialization = "rejected"
  /\ callers' = [callers EXCEPT ![c].pc = "done", ![c].ret = Thrown]
  /\ UNCHANGED <<table, now, json5, initialized, initialization, issued, last, lastSet,
                 schema, stores>>

\* the constructor calls init() when opts.initialize is set
InitInit ==
  /\ table = <<>>
  /\ now = 1
  /\ json5 \in BOOLEAN
  /\ initialized = FALSE
  /\ \E initialize \in BOOLEAN :
       /\ initialization = (IF initialize THEN "pending" ELSE "none")
       /\ issued = (IF initialize THEN 1 ELSE 0)
  /\ last = NoCall
  /\ schema = NoSchema
  /\ stores = NoStores
  /\ lastSet = NoSet
  /\ callers \in [Callers -> {ListCaller("incr", Undefined), ListCaller("lpop", Undefined)}]

NextInit ==
  \/ \E c \in Callers : Enter(c)
  \/ Initialized
  \/ Rejected
  \/ \E c \in Callers : Resume(c)
  \/ \E c \in Callers : Fail(c)
  \/ \E c \in Callers : callers[c].op = "incr" /\ Run(c)
  \/ \E c \in Callers : Select(c)
  \/ \E c \in Callers : Update(c)

SpecInit == InitInit /\ [][NextInit]_vars

(***************************************************************************)
(* SpecMulti: NCallers concurrent callers of mset over K2 and K3, of       *)
(* mget(K2, K3), or of incr(K1), a key outside the maps.  Caller c's mset  *)
(* stores Num(c) under both keys.  A caller's `at` counts the statements   *)
(* of its command that have run.                                           *)
(***************************************************************************)
K3 == <<"k", "3">>

MultiCaller(op, obj) ==
  [op |-> op, pc |-> "call", ret |-> Undefined, obj |-> obj, rows |-> <<>>, at |-> 0]

\* an mset that runs one INSERT OR REPLACE per entry
MsetStatementsPerKey(obj) ==
  IF DOMAIN obj = {K2, K3}
  THEN <<[k \in {K2} |-> obj[k]], [k \in {K3} |-> obj[k]]>>
  ELSE <<obj>>

\* the statements KV.mset issues: one INSERT OR REPLACE with a value list
\* of all the entries
MsetStatements(obj) == <<obj>>

\* the next statement of a caller's mset runs
RunMset(c) ==
  LET stmts == MsetStatements(callers[c].obj)
      i == callers[c].at + 1
      out == MsetStmt(table, now, stmts[i])
  IN /\ callers[c].pc = "statement"
     /\ callers[c].op = "mset"
     /\ table' = out.table
     /\ callers' = [callers EXCEPT ![c].at = i,
                                   ![c].ret = out.ret,
                                   ![c].pc = IF i = Len(stmts) \/ out.ret = Thrown
                                             THEN "done" ELSE "statement"]
     /\ UNCHANGED <<now, json5, initialized, initialization, issued, last, lastSet,
                    schema, stores>>

\* the SELECT of a caller's mget runs
RunMget(c) ==
  LET out == MgetStmt(table, now, {K2, K3})
  IN /\ callers[c].pc = "statement"
     /\ callers[c].op = "mget"
     /\ callers' = [callers EXCEPT ![c].pc = "done", ![c].ret = out.ret, ![c].rows = out.rows]
     /\ UNCHANGED <<table, now, json5, initialized, initialization, issued, last, lastSet,
                    schema, stores>>

InitMulti ==
  /\ table = <<>>
  /\ now = 1
  /\ json5 \in BOOLEAN
  /\ initialized = FALSE
  /\ initialization = "none"
  /\ issued = 0
  /\ last = NoCall
  /\ schema = NoSchema
  /\ stores = NoStores
  /\ lastSet = NoSet
  /\ callers \in {f \in [Callers -> {MultiCaller(op, obj) :
                                        op \in {"mset", "mget", "incr"},
                                        obj \in {<<>>} \cup {[k \in {K2, K3} |-> Num(c)] :
                                                                c \in Callers}}] :
                    \A c \in Callers :
                      f[c].obj = IF f[c].op = "mset" THEN [k \in {K2, K3} |-> Num(c)]
                                 ELSE <<>>}

NextMulti ==
  \/ \E c \in Callers : Enter(c)
  \/ Initialized
  \/ \E c \in Callers : Resume(c)
  \/ \E c \in Callers : RunMset(c)
  \/ \E c \in Callers : RunMget(c)
  \/ \E c \in Callers : callers[c].op = "incr" /\ Run(c)

SpecMulti == InitMulti /\ [][NextMulti]_vars

(***************************************************************************)
(* SpecDel: del over every set of three keys whose rows are absent, live   *)
(* or expired.                                                             *)
(***************************************************************************)
DelKeys == {K1, K2, K3}

NextDel ==
  \/ \E k \in DelKeys, hasEx \in BOOLEAN : Set(k, Num(1), hasEx, 1, FALSE)
  \/ \E ks \in SUBSET DelKeys : Del(ks)
  \/ \E k \in DelKeys : Get(k)
  \/ Tick

SpecDel == Init /\ [][NextDel]_vars

(***************************************************************************)
(* SpecHash: the hash commands on one key, with two plain field names and  *)
(* one that holds a ".", and a number and a string as values.              *)
(***************************************************************************)
HashFields == {"f", "g", "a.b"}
HashValues == {Num(1), Str(<<"1">>)}

NextHash ==
  \/ \E f \in HashFields, v \in HashValues : Hset(K1, f, v)
  \/ \E f \in HashFields : Hget(K1, f)
  \/ Hgetall(K1)
  \/ Get(K1)
  \/ Del({K1})

SpecHash == Init /\ [][NextHash]_vars

(***************************************************************************)
(* SpecSchema: three KV objects on one database, each constructed with a   *)
(* table name of its own choice, initialized in any order.  A store is     *)
(* [table, initialized, initialization], as the fields of the class.       *)
(***************************************************************************)
StoreIds == {"kv", "kv2", "kv3"}
TableNames == {TableName, "\"kv_store2\""}

Store(name) == [table |-> name, initialized |-> FALSE, initialization |-> "none"]

\* KV.init on a store: starts the schema statements unless a promise of
\* them is there already
InitCall(store) ==
  [store EXCEPT !.initialization = IF @ = "none" THEN "pending" ELSE @]

\* store i is constructed with opts.initialize, or a first command calls
\* init(); either way more than once
StoreInit(i) ==
  /\ stores' = [stores EXCEPT ![i] = InitCall(@)]
  /\ issued' = IF stores[i].initialization = "none" THEN issued + 1 ELSE issued
  /\ UNCHANGED <<table, now, json5, initialized, initialization, last, lastSet, callers, schema>>

\* the database runs the schema statements of store i
StoreExec(i) ==
  /\ stores[i].initialization = "pending"
  /\ schema' = Exec(schema, stores[i].table)
  /\ stores' = [stores EXCEPT ![i].initialization = "fulfilled"]
  /\ UNCHANGED <<table, now, json5, initialized, initialization, issued, last, lastSet, callers>>

\* `.then(() => this.initialized = true)` of store i
StoreInitialized(i) ==
  /\ stores[i].initialization = "fulfilled"
  /\ ~stores[i].initialized
  /\ stores' = [stores EXCEPT ![i].initialized = TRUE]
  /\ UNCHANGED <<table, now, json5, initialized, initialization, issued, last, lastSet, callers,
                 schema>>

InitSchema ==
  /\ table = <<>>
  /\ now = 1
  /\ json5 \in BOOLEAN
  /\ initialized = FALSE
  /\ initialization = "none"
  /\ issued = 0
  /\ last = NoCall
  /\ lastSet = NoSet
  /\ callers = NoCallers
  /\ schema = NoSchema
  /\ stores \in [StoreIds -> {Store(name) : name \in TableNames}]

NextSchema ==
  \/ \E i \in StoreIds : StoreInit(i)
  \/ \E i \in StoreIds : StoreExec(i)
  \/ \E i \in StoreIds : StoreInitialized(i)

SpecSchema == InitSchema /\ [][NextSchema]_vars

(***************************************************************************)
(* SpecTyped: pushes of elements of every kind on one key, and the         *)
(* commands that read an element back.                                     *)
(***************************************************************************)
TypedElements == {Num(1), Str(<<"1">>), True, Null, Arr(<<>>), Obj(<<>>, <<>>)}

NextTyped ==
  \/ \E v \in TypedElements : Lpush(K1, v)
  \/ \E v \in TypedElements : Rpush(K1, v)
  \/ Lpop(K1)
  \/ Rpop(K1)
  \/ Lrange(K1, 0, -1)
  \/ Del({K1})

SpecTyped == Init /\ [][NextTyped]_vars

(***************************************************************************)
(* SpecKeys: keys(pattern) over several keys, some of them holding the     *)
(* characters LIKE gives a meaning to, some of them expired.               *)
(***************************************************************************)
GlobKeys ==
  {<<"k", "0", "0">>, <<"k", "_", "1">>, <<"k", "_", "1", "2">>, <<"k", "%", "1">>,
   <<"k", "\\", "1">>}

GlobPatterns ==
  {<<"*">>, <<"k", "*">>, <<"k", "_", "?">>, <<"k", "?", "1">>, <<"k", "%", "*">>,
   <<"K", "*">>, <<"k", "\\", "?">>, <<"k", "\\", "1", "*", "_">>, <<"k", "'">>}

NextKeys ==
  \/ \E k \in GlobKeys, hasEx \in BOOLEAN : Set(k, Num(1), hasEx, 0, FALSE)
  \/ \E k \in GlobKeys : Del({k})
  \/ \E p \in GlobPatterns : KeysOf(p)

SpecKeys == Init /\ [][NextKeys]_vars

(***************************************************************************)
(* Notions the properties are stated with.                                 *)
(***************************************************************************)
\* the row of k has a non-null expire_at <= t
Expired(tbl, t, k) ==
  k \in DOMAIN tbl /\ tbl[k].expire_at.t = "INTEGER" /\ tbl[k].expire_at.n <= t

\* k holds a list: its row's value is the text of a JSON array
HoldsList(tbl, k) ==
  k \in DOMAIN tbl /\ tbl[k].value.t = "TEXT" /\ JSONParse(tbl[k].value.x).t = "array"

\* the elements of the list at k, in index order (none when k has no row)
ListAt(tbl, k) == IF HoldsList(tbl, k) THEN JSONParse(tbl[k].value.x).a ELSE <<>>

(***************************************************************************)
(* C1.  Lazy expiry on reads: a key whose row has a non-null               *)
(* expire_at <= now is reported absent by every read: get returns          *)
(* undefined, mget and keys omit the key, lrange returns [], llen 0, hget  *)
(* and hgetall undefined, lpop and rpop undefined without changing the     *)
(* row, and ttl returns -2.                                                *)
(***************************************************************************)
C1_LazyExpiryOnReads ==
  [][\A k \in Keys : Expired(table, now, k) =>
       LET c == last' IN
         /\ c.op = "get" /\ c.key = k => c.ret = Undefined
         /\ c.op = "mget" /\ k \in c.keys => c.ret # Thrown /\ k \notin DOMAIN c.rows
         /\ c.op = "keys" => c.ret # Thrown /\ k \notin DOMAIN c.rows
         /\ c.op = "lrange" /\ c.key = k => c.ret = Arr(<<>>)
         /\ c.op = "llen" /\ c.key = k => c.ret = Num(0)
         /\ c.op \in {"hget", "hgetall"} /\ c.key = k => c.ret = Undefined
         /\ c.op \in {"lpop", "rpop"} /\ c.key = k => c.ret = Undefined /\ table' = table
         /\ c.op = "ttl" /\ c.key = k => c.ret = Num(-2)]_vars

(***************************************************************************)
(* C2.  No lost update on counters: for every interleaving of N incr(k)    *)
(* and M decr(k) calls of concurrent callers on a key that starts with no  *)
(* row, every call returns the value its own update stores, the stored     *)
(* value is the number of incr minus the number of decr that have run (so  *)
(* N - M in the end), and while no decr has run the values returned are    *)
(* exactly 1..n for the n incr that have run, each returned once.          *)
(***************************************************************************)
Ran(op) == {c \in Callers : callers[c].pc = "done" /\ callers[c].op = op}

C2_NoLostUpdate ==
  /\ [](LET n == Cardinality(Ran("incr"))
            m == Cardinality(Ran("decr"))
        IN /\ K1 \in DOMAIN table <=> n + m > 0
           /\ K1 \in DOMAIN table =>
                table[K1].value = SqlInt(n - m) /\ GetStmt(table, now, K1).ret = Num(n - m)
           /\ m = 0 =>
                /\ {callers[c].ret : c \in Ran("incr")} = {Num(i) : i \in 1..n}
                /\ \A c, d \in Ran("incr") : callers[c].ret = callers[d].ret => c = d)
  /\ [][\A c \in Callers :
          callers[c].pc = "statement" /\ callers'[c].pc = "done" =>
            /\ callers'[c].ret.t = "number"
            /\ table'[K1].value = SqlInt(callers'[c].ret.n)
            /\ callers'[c].ret.n =
                 (IF K1 \in DOMAIN table THEN table[K1].value.n ELSE 0)
                 + (IF callers[c].op = "incr" THEN 1 ELSE -1)]_vars

\* all the callers called incr, at least two of them, and all have returned
C2_Witness ==
  /\ NCallers >= 2
  /\ callers # NoCallers
  /\ \A c \in Callers : callers[c].op = "incr" /\ callers[c].pc = "done"
  /\ table[K1].value = SqlInt(NCallers)

(***************************************************************************)
(* C3.  Conditional set: set(k, v, {nx: true}) on a key that exists (has a *)
(* row that is not expired) returns false and leaves the table (value and  *)
(* expire_at of k) as it was; on a key with no row it returns true and     *)
(* stores v; a set without nx always returns true and stores v.  Storing   *)
(* also sets expire_at to now + ex, or to null without ex, and leaves the  *)
(* other keys alone.  (What set with nx does to an expired row is C22.)    *)
(***************************************************************************)
C3_ConditionalSet ==
  [][last'.op = "set" =>
       LET c == last'
           k == c.key
       IN IF c.nx /\ Visible(table, now, k)
            THEN c.ret = False /\ table' = table
          ELSE IF c.nx /\ Expired(table, now, k)
            THEN TRUE
            ELSE /\ c.ret = True
                 /\ k \in DOMAIN table'
                 /\ Decode(Column(table'[k].value)) = c.value
                 /\ table'[k].expire_at = (IF c.ex THEN SqlInt(now + c.a) ELSE SqlNull)
                 /\ \A x \in Keys \ {k} :
                      /\ x \in DOMAIN table' <=> x \in DOMAIN table
                      /\ x \in DOMAIN table => table'[x] = table[x]]_vars

\* a set with nx has found a row of another value, with an expiry still
\* ahead, and has returned false
C3_Witness ==
  /\ last.op = "set"
  /\ last.nx
  /\ last.ret = False
  /\ Visible(table, now, last.key)
  /\ table[last.key].expire_at.t = "INTEGER"
  /\ Decode(Column(table[last.key].value)) # last.value

(***************************************************************************)
(* C4.  ttl(k) is a total three-way function of the row of k and the       *)
(* clock: -2 exactly when k has no row or its expire_at <= now, -1 exactly *)
(* when the row has no expiry, and otherwise expire_at - now, a positive   *)
(* integer; never 0; and ttl(k) = -2 exactly when get(k) reports absent.   *)
(***************************************************************************)
C4_TtlThreeWay ==
  last.op = "ttl" =>
    LET k == last.key
        gone == k \notin DOMAIN table \/ Expired(table, now, k)
    IN /\ last.ret = Num(-2) <=> gone
       /\ last.ret = Num(-1) <=> (k \in DOMAIN table /\ table[k].expire_at.t = "NULL")
       /\ ~gone /\ table[k].expire_at.t # "NULL" =>
            last.ret = Num(table[k].expire_at.n - now) /\ last.ret.n > 0
       /\ last.ret # Num(0)
       /\ last.ret = Num(-2) <=> GetStmt(table, now, k).ret = Undefined

(***************************************************************************)
(* C5.  Expiring set: after set(k, v, {ex: s}) at time t with s >= 0, and  *)
(* while no further command targets k, get(k) returns v at every time      *)
(* < t + s and undefined at every time >= t + s (so immediately for        *)
(* s = 0), and for s > 0 ttl(k) read at time t returns s.                  *)
(***************************************************************************)
C5_ExpiringSet ==
  lastSet.valid /\ lastSet.ex >= 0 /\ last.key = lastSet.key =>
    /\ last.op = "get" =>
         last.ret = (IF now < lastSet.at + lastSet.ex THEN lastSet.value ELSE Undefined)
    /\ last.op = "ttl" /\ now = lastSet.at /\ lastSet.ex > 0 => last.ret = Num(lastSet.ex)

\* a get after the expiry time of a set with ex = 1 that had been visible
C5_Witness ==
  /\ lastSet.valid
  /\ lastSet.ex = 1
  /\ last.op = "get"
  /\ last.key = lastSet.key
  /\ now = lastSet.at + 1
  /\ last.ret = Undefined

(***************************************************************************)
(* C6.  expire(k, s) sets expire_at = now + s for an existing key and      *)
(* leaves its value unchanged; on a key that is absent or already expired  *)
(* it has no observable effect: no row is created and get(k) still reports *)
(* absent afterwards.                                                      *)
(***************************************************************************)
C6_ExpireOnlyExisting ==
  [][last'.op = "expire" =>
       LET k == last'.key IN
         IF Visible(table, now, k)
           THEN table'[k] = Row(table[k].value, SqlInt(now + last'.a))
           ELSE /\ k \in DOMAIN table' <=> k \in DOMAIN table
                /\ GetStmt(table', now, k).ret = Undefined]_vars

C8_PushPopOrderAsTests ==
  [][LET c == last'
         old == ListAt(table, K1)
         new == ListAt(table', K1)
     IN /\ c.op = "lpush" /\ c.ret # Thrown => new = old \o <<c.value>>
        /\ c.op = "rpush" /\ c.ret # Thrown => new = <<c.value>> \o old
        /\ c.op \in {"lpush", "rpush"} /\ c.ret = Thrown => new = old
        /\ c.op \in {"lpush", "rpush"} =>
             LrangeStmt(table', now, K1, 0, -1).ret = Arr(new)
        /\ c.op = "lpop" /\ old # <<>> => c.ret = old[1] /\ new = Tail(old)
        /\ c.op = "rpop" /\ old # <<>> =>
             c.ret = old[Len(old)] /\ new = SubSeq(old, 1, Len(old) - 1)
        /\ last.op = "lpush" /\ last.ret # Thrown /\ c.op = "rpop" => c.ret = last.value
        /\ last.op = "rpush" /\ last.ret # Thrown /\ c.op = "lpop" => c.ret = last.value]_vars

\* two lpush-ed elements are listed in insertion order and an lpop has
\* returned the one pushed first
C8_Witness ==
  /\ last.op = "lpop"
  /\ last.ret = Num(1)
  /\ ListAt(table, K1) = <<Str(<<"a">>), Null>>

(***************************************************************************)
(* C9.  lrange(k, start, end) returns exactly the elements at indices      *)
(* start..end inclusive of the list at k for all 0 <= start <= end;        *)
(* end = -1 means up to the last element; an absent key gives [].  So      *)
(* lrange(k, 0, 0) on two or more elements returns only the first.         *)
(***************************************************************************)
C9_LrangeInclusive ==
  last.op = "lrange" =>
    LET list == ListAt(table, last.key)
        to == IF last.b = -1 \/ last.b >= Len(list) THEN Len(list) ELSE last.b + 1
    IN (last.b = -1 \/ last.a <= last.b) => last.ret = Arr(SubSeq(list, last.a + 1, to))

(***************************************************************************)
(* C10.  lrem(k, count, e) leaves the list with occurrences of e removed:  *)
(* all of them when count = 0, the first min(count, occurrences) from the  *)
(* head when count > 0, the last min(|count|, occurrences) from the tail   *)
(* when count < 0; every element not equal to e, of any type including     *)
(* null, is kept, and the kept elements stay in their order.               *)
(***************************************************************************)
RECURSIVE RemoveFirst(_, _, _)
\* list without its first n occurrences of e
RemoveFirst(list, n, e) ==
  IF list = <<>> THEN <<>>
  ELSE IF Head(list) = e /\ n > 0 THEN RemoveFirst(Tail(list), n - 1, e)
  ELSE <<Head(list)>> \o RemoveFirst(Tail(list), n, e)

Reverse(list) == [i \in 1..Len(list) |-> list[Len(list) + 1 - i]]

\* what LREM leaves
Removed(list, count, e) ==
  IF count = 0 THEN RemoveFirst(list, Len(list), e)
  ELSE IF count > 0 THEN RemoveFirst(list, count, e)
  ELSE Reverse(RemoveFirst(Reverse(list), -count, e))

C10_LremRemovesOccurrences ==
  [][last'.op = "lrem" /\ HoldsList(table, K1) =>
       ListAt(table', K1) = Removed(ListAt(table, K1), last'.a, last'.value)]_vars

(***************************************************************************)
(* C11.  Atomic pop: with batches that run without statements of other     *)
(* callers in between, in every interleaving of concurrent lpop, rpop,     *)
(* lpush and rpush calls on one key each pop returns exactly the element   *)
(* its own update removes (and nothing when it removes none); no element   *)
(* is returned by two pops, and no element leaves the list without being   *)
(* returned by a pop: the elements pushed are those in the list together   *)
(* with those the pops have returned.                                      *)
(***************************************************************************)
Finished(ops) == {c \in DOMAIN callers : callers[c].pc = "done" /\ callers[c].op \in ops}

Popped == {c \in Finished({"lpop", "rpop"}) : callers[c].ret \notin {Undefined, Null}}

Range(list) == {list[i] : i \in 1..Len(list)}

C11_AtomicPop ==
  /\ [][\A c \in Callers :
          callers[c].pc = "selected" /\ callers'[c].pc = "done" =>
            LET old == ListAt(table, K1)
                new == ListAt(table', K1)
                ret == callers'[c].ret
            IN IF old = <<>> THEN new = old /\ ret \in {Undefined, Null}
               ELSE IF callers[c].op = "lpop" THEN old = <<ret>> \o new
               ELSE old = new \o <<ret>>]_vars
  /\ [](/\ \A c, d \in Popped : callers[c].ret = callers[d].ret => c = d
        /\ InBatch = {} =>
             /\ {callers[c].value :
                   c \in {d \in Finished({"lpush", "rpush"}) : callers[d].ret # Thrown}}
                  = Range(ListAt(table, K1)) \cup {callers[c].ret : c \in Popped}
             /\ Range(ListAt(table, K1)) \cap {callers[c].ret : c \in Popped} = {})

\* a push has stored an element, one pop has returned it, and another pop
\* has found the list empty
C11_Witness ==
  /\ Cardinality(Popped) = 1
  /\ Cardinality(Finished({"lpop", "rpop"})) = 2
  /\ Cardinality(Finished({"lpush", "rpush"})) >= 1
  /\ HoldsList(table, K1)
  /\ ListAt(table, K1) = <<>>

(***************************************************************************)
(* C12.  lpop(k) and rpop(k) return absent (undefined), raise no error and *)
(* leave the table unchanged when k has no row or holds an empty list;     *)
(* popping the last element leaves an empty list, on which a further pop   *)
(* again returns absent.                                                   *)
(***************************************************************************)
C12_PopOnEmpty ==
  [][last'.op \in {"lpop", "rpop"} =>
       /\ K1 \notin DOMAIN table \/ (HoldsList(table, K1) /\ ListAt(table, K1) = <<>>) =>
            last'.ret = Undefined /\ table' = table
       /\ HoldsList(table, K1) /\ Len(ListAt(table, K1)) = 1 =>
            HoldsList(table', K1) /\ ListAt(table', K1) = <<>>]_vars

(***************************************************************************)
(* C12, as the code and its tests have it.  lpop(k) and rpop(k) raise no   *)
(* error and leave the table unchanged when k has no row or holds an empty *)
(* list; they return undefined when k has no row and null when k holds an  *)
(* empty list; popping the last element leaves an empty list in the row.   *)
(***************************************************************************)
C12_PopOnEmptyAsCode ==
  [][last'.op \in {"lpop", "rpop"} =>
       /\ K1 \notin DOMAIN table => last'.ret = Undefined /\ table' = table
       /\ HoldsList(table, K1) /\ ListAt(table, K1) = <<>> =>
            last'.ret = Null /\ table' = table
       /\ HoldsList(table, K1) /\ Len(ListAt(table, K1)) = 1 =>
            /\ last'.ret = ListAt(table, K1)[1]
            /\ HoldsList(table', K1)
            /\ ListAt(table', K1) = <<>>]_vars

\* a pop has emptied the list, the row is still there, and the next pop has
\* returned null where a pop on a key without a row returns undefined
C12_Witness ==
  /\ last.op = "rpop"
  /\ last.ret = Null
  /\ HoldsList(table, K1)
  /\ ListAt(table, K1) = <<>>

(***************************************************************************)
(* C13.  Round-trip through the store: for every value v that is a number, *)
(* a string (also one that looks like a number or like JSON), a boolean,   *)
(* null, an array or an object, set(k, v) followed by get(k) returns a     *)
(* value equal to v and of the same type; set(k, undefined) reads back as  *)
(* null; get of a key that has no row returns undefined, and get of a key  *)
(* that has a row never does, so a stored null is told from no value.      *)
(***************************************************************************)
C13_RoundTrip ==
  [][last'.op = "get" =>
       /\ K1 \notin DOMAIN table => last'.ret = Undefined
       /\ K1 \in DOMAIN table => last'.ret \notin {Undefined, Thrown}
       /\ last.op = "set" /\ last.ret = True =>
            last'.ret = (IF last.value = Undefined THEN Null ELSE last.value)]_vars

\* the string 'true' has been stored and read back as that string, not as
\* the boolean
C13_Witness ==
  /\ last.op = "get"
  /\ last.ret = Str(<<"true">>)
  /\ K1 \in DOMAIN table
  /\ table[K1].value = SqlText(<<"\"", "true", "\"">>)

(***************************************************************************)
(* C14.  Typed round-trip per list element: for every value v (number,     *)
(* string, boolean, null, array, object), a push that returns stores v as  *)
(* an element, and the command that reads an element back (lpop, rpop or   *)
(* lrange) returns a value equal to the element and of the same type, not  *)
(* its serialized text: popping a pushed [] returns [].                    *)
(***************************************************************************)
C14_TypedElements ==
  [][LET c == last'
         old == ListAt(table, K1)
         new == ListAt(table', K1)
     IN /\ c.op = "lpush" /\ c.ret # Thrown => new = old \o <<c.value>>
        /\ c.op = "rpush" /\ c.ret # Thrown => new = <<c.value>> \o old
        /\ c.op = "lrange" => c.ret = Arr(old)
        /\ c.op = "lpop" /\ old # <<>> => c.ret = old[1]
        /\ c.op = "rpop" /\ old # <<>> => c.ret = old[Len(old)]]_vars

(***************************************************************************)
(* C15.  keys(p) returns exactly the keys that are not expired and match   *)
(* the glob p: `*` matches any run of characters (also none), `?` matches  *)
(* exactly one character, and every other character of p, `_`, `%` and the *)
(* backslash among them, matches only itself.                              *)
(***************************************************************************)
RECURSIVE Glob(_, _)
Glob(p, x) ==
  IF p = <<>> THEN x = <<>>
  ELSE IF Head(p) = "*" THEN \E i \in 0..Len(x) : Glob(Tail(p), SubSeq(x, i + 1, Len(x)))
  ELSE IF Head(p) = "?" THEN x # <<>> /\ Glob(Tail(p), Tail(x))
  ELSE x # <<>> /\ Head(p) = Head(x) /\ Glob(Tail(p), Tail(x))

C15_KeysGlob ==
  last.op = "keys" =>
    /\ last.ret # Thrown
    /\ DOMAIN last.rows =
         {k \in DOMAIN table : Glob(last.pattern, k) /\ ~Expired(table, now, k)}
    /\ \A k \in DOMAIN last.rows : last.rows[k] = Str(k)

(***************************************************************************)
(* C16.  One schema statement per instance: whatever the number and        *)
(* interleaving of operations started before initialization has completed, *)
(* with or without the eager `initialize` option and whether the statement *)
(* succeeds or fails, the object issues its schema statement at most once, *)
(* and every caller that arrives while it is pending waits for that same   *)
(* completion: it goes on only once the one statement has completed.       *)
(***************************************************************************)
C16_OneSchemaStatement ==
  /\ [](/\ issued <= 1
        /\ issued = 0 <=> initialization = "none"
        /\ \A c \in Callers : callers[c].pc = "await" => issued = 1)
  /\ [][/\ issued' >= issued
        /\ initialization \in {"fulfilled", "rejected"} => initialization' = initialization
        /\ \A c \in Callers :
             callers[c].pc = "await" /\ callers'[c].pc # "await" =>
               initialization \in {"fulfilled", "rejected"}]_vars

\* two callers wait for the schema statement that one of them has issued
C16_Witness ==
  /\ initialization = "pending"
  /\ issued = 1
  /\ Cardinality({c \in DOMAIN callers : callers[c].pc = "await"}) >= 2

(***************************************************************************)
(* C17.  Initialization precedes data access: no operation issues a data   *)
(* statement or batch before the object's schema statement has completed   *)
(* successfully; if the schema statement fails, an operation waiting for   *)
(* it fails with that error without issuing its data statement, the table  *)
(* stays as it was, and the ready flag is never set.                       *)
(***************************************************************************)
C17_InitPrecedesData ==
  /\ [](/\ \A c \in Callers :
             callers[c].pc \in {"statement", "selected"}
               \/ (callers[c].pc = "done" /\ callers[c].ret # Thrown)
             => initialized /\ initialization = "fulfilled"
        /\ initialized => initialization = "fulfilled"
        /\ initialization = "rejected" => ~initialized /\ table = <<>>)
  /\ [][/\ table' # table => initialized /\ initialization = "fulfilled"
        /\ \A c \in Callers :
             initialization = "rejected" /\ callers'[c] # callers[c] =>
               /\ callers'[c].pc \in {"await", "done"}
               /\ callers'[c].pc = "done" => callers'[c].ret = Thrown
               /\ table' = table]_vars

\* the schema statement has failed and a caller that waited for it has
\* failed with it
C17_Witness ==
  /\ initialization = "rejected"
  /\ \E c \in DOMAIN callers : callers[c].pc = "done" /\ callers[c].ret = Thrown

(***************************************************************************)
(* C18.  mset(map) is all-or-nothing and atomic to observers: when it      *)
(* completes, get(k) returns map[k] for every key k of the map and every   *)
(* key outside the map is as it was; a concurrent mget over the keys of    *)
(* the maps sees all of the values of an mset or none of them, never a     *)
(* mixture: as every mset stores one value under both keys, mget returns   *)
(* both keys with the same value or neither key.                           *)
(***************************************************************************)
C18_MsetAtomic ==
  /\ [][\A c \in Callers :
          /\ callers[c].op = "mset"
          /\ callers[c].pc = "statement"
          /\ callers'[c].pc = "done"
          => /\ callers'[c].ret # Thrown
             /\ \A k \in DOMAIN callers[c].obj :
                  GetStmt(table', now, k).ret = callers[c].obj[k]
             /\ (K1 \in DOMAIN table' <=> K1 \in DOMAIN table)
             /\ K1 \in DOMAIN table => table'[K1] = table[K1]]_vars
  /\ [](\A c \in Callers :
          callers[c].op = "mget" /\ callers[c].pc = "done" =>
            LET rows == callers[c].rows
            IN /\ callers[c].ret # Thrown
               /\ K2 \in DOMAIN rows <=> K3 \in DOMAIN rows
               /\ K2 \in DOMAIN rows => rows[K2] = rows[K3])

\* an mget has returned the values of one mset, another mset has replaced
\* them since, and an incr has stored the key outside the maps
C18_Witness ==
  /\ callers # NoCallers
  /\ \E c \in DOMAIN callers :
       /\ callers[c].op = "mget"
       /\ callers[c].pc = "done"
       /\ K2 \in DOMAIN callers[c].rows
       /\ K2 \in DOMAIN table
       /\ table[K2].value # SqlInt(callers[c].rows[K2].n)

(***************************************************************************)
(* C19.  del(k1..kn) removes exactly the rows of the listed keys, expired  *)
(* or not, and leaves every other row as it was; it raises no error when   *)
(* some or all of the keys have no row; the same del applied again leaves  *)
(* the table it left the first time.                                       *)
(***************************************************************************)
C19_DelExact ==
  [][last'.op = "del" =>
       /\ last'.ret # Thrown
       /\ DOMAIN table' = DOMAIN table \ last'.keys
       /\ \A k \in DOMAIN table' : table'[k] = table[k]
       /\ DelStmt(table', now', last'.keys).ret # Thrown
       /\ DelStmt(table', now', last'.keys).table = table']_vars

\* a del of two keys has run and the expired row of the third key is there
C19_Witness ==
  /\ last.op = "del"
  /\ last.keys = {K1, K2}
  /\ K3 \in DOMAIN table
  /\ ~Live(table[K3], now)

\* the field mapping of a decoded hash document; none for anything else
FieldMap(v) ==
  IF v.t = "object"
  THEN [f \in {v.ks[i] : i \in 1..Len(v.ks)} |-> v.a[CHOOSE i \in 1..Len(v.ks) : v.ks[i] = f]]
  ELSE <<>>

\* the mapping m with f mapped to v
WithField(m, f, v) == [x \in DOMAIN m \cup {f} |-> IF x = f THEN v ELSE m[x]]

(***************************************************************************)
(* C20.  After hset(k, f, v), hget(k, f) returns v, and hgetall(k) and     *)
(* get(k) return the previous field mapping of k (none when k is absent)   *)
(* with f mapped to v, every other field keeping its value; hget returns   *)
(* undefined when the key is missing and when the key is there and the     *)
(* field is missing.                                                       *)
(***************************************************************************)
C20_HashFieldAccess ==
  [][/\ last'.op = "hset" =>
          LET k == last'.key
              f == last'.field
              v == last'.value
              prev == FieldMap(GetStmt(table, now, k).ret)
          IN /\ last'.ret # Thrown
             /\ HgetStmt(table', now', k, f, json5).ret = v
             /\ HgetallStmt(table', now', k, json5).ret.t = "object"
             /\ FieldMap(HgetallStmt(table', now', k, json5).ret) = WithField(prev, f, v)
             /\ GetStmt(table', now', k).ret = HgetallStmt(table', now', k, json5).ret
     /\ last'.op = "hget"
          /\ last'.field \notin DOMAIN FieldMap(GetStmt(table, now, last'.key).ret)
          => last'.ret = Undefined]_vars

\* what llen(k) returns on table tbl, as a number (-1 when it throws)
LlenOf(tbl, t, k, j5) ==
  IF LlenStmt(tbl, t, k, j5).ret.t = "number" THEN LlenStmt(tbl, t, k, j5).ret.n ELSE -1

(***************************************************************************)
(* C21.  llen tracks the element count: after lpush, rpush, lpop, rpop or  *)
(* lrem on k, llen(k) is the number of elements lrange(k, 0, -1) returns;  *)
(* every push returns and raises llen(k) by exactly 1, every pop of a      *)
(* non-empty list lowers it by exactly 1, and llen is 0 for a key with no  *)
(* row.                                                                    *)
(***************************************************************************)
C21_LlenTracks ==
  [][/\ last'.op \in {"lpush", "rpush", "lpop", "rpop", "lrem"} =>
          /\ LrangeStmt(table', now', last'.key, 0, -1).ret.t = "array"
          /\ LlenOf(table', now', last'.key, json5)
               = Len(LrangeStmt(table', now', last'.key, 0, -1).ret.a)
     /\ last'.op \in {"lpush", "rpush"} =>
          /\ last'.ret # Thrown
          /\ LlenOf(table', now', last'.key, json5) = LlenOf(table, now, last'.key, json5) + 1
     /\ last'.op \in {"lpop", "rpop"} /\ LlenOf(table, now, last'.key, json5) >= 1 =>
          LlenOf(table', now', last'.key, json5) = LlenOf(table, now, last'.key, json5) - 1
     /\ last'.op = "llen" /\ last'.key \notin DOMAIN table => last'.ret = Num(0)]_vars

\* the outcome of the write command recorded in call, applied to table tbl
Applied(call, tbl, t, j5) ==
  CASE call.op = "set" -> SetStmt(tbl, t, call.key, call.value, call.ex, call.a, call.nx)
    [] call.op = "incr" -> IncrStmt(tbl, t, call.key)
    [] call.op = "decr" -> DecrStmt(tbl, t, call.key)
    [] call.op = "lpush" -> LpushStmt(tbl, t, call.key, call.value, j5)
    [] call.op = "rpush" -> RpushStmt(tbl, t, call.key, call.value, j5)
    [] call.op = "hset" -> HsetStmt(tbl, t, call.key, call.field, call.value, j5)
    [] OTHER -> Outcome(tbl, Undefined)

(***************************************************************************)
(* C22.  Write commands treat an expired key as absent: set with nx, incr, *)
(* decr, lpush, rpush and hset applied to a key whose row has expired      *)
(* return what they return on a table with no row for the key, and get     *)
(* and lrange(k, 0, -1) return afterwards what they return after the       *)
(* command on that table.                                                  *)
(***************************************************************************)
C22_WritesOnExpired ==
  [][/\ last'.op \in {"set", "incr", "decr", "lpush", "rpush", "hset"}
     /\ last'.op = "set" => last'.nx
     /\ Expired(table, now, last'.key)
     => LET absent == Applied(last', Remove(table, {last'.key}), now, json5)
        IN /\ last'.ret = absent.ret
           /\ GetStmt(table', now', last'.key).ret = GetStmt(absent.table, now', last'.key).ret
           /\ LrangeStmt(table', now', last'.key, 0, -1).ret
                = LrangeStmt(absent.table, now', last'.key, 0, -1).ret]_vars

(***************************************************************************)
(* C23.  rpush(k, v) on a key that holds a list, the empty list included,  *)
(* raises no error and leaves a well-formed list that contains v and is    *)
(* exactly one element longer than before.                                 *)
(***************************************************************************)
C23_RpushOnAnyList ==
  [][last'.op = "rpush" /\ HoldsList(table, last'.key) =>
       /\ last'.ret # Thrown
       /\ HoldsList(table', last'.key)
       /\ Len(ListAt(table', last'.key)) = Len(ListAt(table, last'.key)) + 1
       /\ \E i \in 1..Len(ListAt(table', last'.key)) :
            ListAt(table', last'.key)[i] = last'.value]_vars

(***************************************************************************)
(* C24.  Effect of writes on expiry: incr, decr, lpush, rpush, lpop, rpop, *)
(* lrem and hset applied to a key that has a row leave its expire_at as it *)
(* was; a set without ex that stores, and mset, replace the row and clear  *)
(* its expiry, so that ttl(k) is -1 right after them; no command but set   *)
(* with ex and expire stores a non-null expire_at.                         *)
(***************************************************************************)
C24_ExpiryFrame ==
  [][\A k \in Keys :
       /\ (/\ last'.op \in {"incr", "decr", "lpush", "rpush", "lpop", "rpop", "lrem", "hset"}
           /\ k \in DOMAIN table)
          => k \in DOMAIN table' /\ table'[k].expire_at = table[k].expire_at
       /\ (\/ last'.op = "set" /\ last'.key = k /\ ~last'.ex /\ last'.ret = True
           \/ last'.op = "mset" /\ k \in DOMAIN last'.obj /\ last'.ret # Thrown)
          => /\ k \in DOMAIN table'
             /\ table'[k].expire_at = SqlNull
             /\ TtlStmt(table', now', k).ret = Num(-1)
       /\ (/\ k \in DOMAIN table'
           /\ table'[k].expire_at # SqlNull
           /\ k \in DOMAIN table => table'[k].expire_at # table[k].expire_at)
          => last'.op = "expire" \/ (last'.op = "set" /\ last'.ex)]_vars

\* an incr has run on a key whose row carries an expiry, which it kept
C24_Witness ==
  /\ last.op = "incr"
  /\ K1 \in DOMAIN table
  /\ table[K1].expire_at # SqlNull
  /\ last.ret = Num(2)

(***************************************************************************)
(* C25.  Schema per namespace: once the initialization of a KV object has  *)
(* completed, the table of its namespace exists and an index on that same  *)
(* table exists, whatever the table names of the KV objects initialized on *)
(* the database and whatever the order; an init() on an object whose       *)
(* initialization has started changes nothing.                             *)
(***************************************************************************)
C25_SchemaPerNamespace ==
  /\ [](\A i \in DOMAIN stores :
          stores[i].initialized =>
            /\ stores[i].table \in schema.tables
            /\ \E x \in DOMAIN schema.indexes : schema.indexes[x] = stores[i].table)
  /\ [](\A i \in DOMAIN stores :
          stores[i].initialization # "none" => InitCall(stores[i]) = stores[i])
  /\ [][\A i \in DOMAIN stores :
          /\ stores[i].initialization = "pending"
          /\ stores'[i].initialization = "fulfilled"
          /\ stores[i].table \in schema.tables
          => schema' = schema]_vars
====
